---------------------------- MODULE Spec2Model ----------------------------
(***************************************************************************)
(* A model of calendar_bot.py: the folded-line reassembler, the event      *)
(* block parser with its date/time normaliser, the free-text extractors    *)
(* (teacher, place), the dedupe gate and the run cycle of main.            *)
(*                                                                         *)
(* Text is modelled as a sequence of tokens (a token is one character or   *)
(* one indivisible run of characters); the string operations of the source *)
(* (split, strip, lower, upper, replace, the regular expressions) are      *)
(* computed on those sequences.                                            *)
(***************************************************************************)
EXTENDS Integers, Sequences, FiniteSets, TLC

VARIABLES
    \* parse_ics_events: the loop's locals and the position of the call
    in_event, cur, events, p_pc,
    \* history of the lines parse_ics_events has consumed
    marks, blk,
    \* _unfold_ics_lines: the logical lines folded, the text, the result
    logical, ics_text, out, u_pc,
    \* classify_place: arguments and result
    location, description, place, c_pc,
    \* extract_teacher: argument and result
    t_description, teacher, t_pc,
    \* should_post / mark_posted called on their own
    g_state, g_key, g_stamp, g_answer, g_pc,
    \* main: the state file, the calendar day, one run's environment and locals,
    \* and what the run has done so far
    file, clock, env, today, pc, mode, state, stamp, log

parseVars  == <<in_event, cur, events, p_pc, marks, blk>>
unfoldVars == <<logical, ics_text, out, u_pc>>
placeVars  == <<location, description, place, c_pc>>
teachVars  == <<t_description, teacher, t_pc>>
gateVars   == <<g_state, g_key, g_stamp, g_answer, g_pc>>
mainVars   == <<file, clock, env, today, pc, mode, state, stamp, log>>
vars == <<parseVars, unfoldVars, placeVars, teachVars, gateVars, mainVars>>

None == "None"

-----------------------------------------------------------------------------
(* Strings as token sequences                                              *)

\* the characters str.strip() removes
Whitespace == {" ", "\t", "\n", "\r"}

RECURSIVE LStrip(_)
LStrip(s) == IF s # <<>> /\ Head(s) \in Whitespace THEN LStrip(Tail(s)) ELSE s

RECURSIVE RStrip(_)
RStrip(s) ==
    IF s # <<>> /\ s[Len(s)] \in Whitespace THEN RStrip(SubSeq(s, 1, Len(s) - 1)) ELSE s

Strip(s) == RStrip(LStrip(s))

\* the index of the first occurrence of token c in s, 0 when there is none
RECURSIVE IndexFrom(_, _, _)
IndexFrom(s, c, i) ==
    IF i > Len(s) THEN 0 ELSE IF s[i] = c THEN i ELSE IndexFrom(s, c, i + 1)

Find(s, c) == IndexFrom(s, c, 1)

\* all sequences over S of length at most n
SeqsUpTo(S, n) == UNION {[1..k -> S] : k \in 0..n}

-----------------------------------------------------------------------------
(* Time: minutes counted from 2024-10-27T00:00, the day Europe/Kyiv goes   *)
(* back from UTC+3 to UTC+2 at 01:00 UTC (04:00 local becomes 03:00).      *)

KYIV_TZ == "Europe/Kyiv"

\* the zone names ZoneInfo() resolves; any other raises ZoneInfoNotFoundError
Zones == {"Europe/Kyiv", "UTC"}

\* tzinfo.utcoffset of a wall-clock time: in Kyiv the wall clock 03:00-03:59
\* occurs twice, and fold says which occurrence is meant
UtcOffset(tz, wall, fold) ==
    IF tz = "UTC" THEN 0
    ELSE IF wall < 180 THEN 180
    ELSE IF wall < 240 THEN (IF fold = 0 THEN 180 ELSE 120)
    ELSE 120

\* tzinfo.fromutc for Europe/Kyiv
FromUtcKyiv(u) ==
    IF u < 60 THEN [wall |-> u + 180, fold |-> 0, tz |-> KYIV_TZ]
    ELSE [wall |-> u + 120, fold |-> IF u < 120 THEN 1 ELSE 0, tz |-> KYIV_TZ]

\* the instant an aware datetime denotes, in minutes UTC
Instant(d) == d.wall - UtcOffset(d.tz, d.wall, d.fold)

\* datetime.astimezone(KYIV_TZ): a datetime already carrying KYIV_TZ is
\* returned as it is, any other goes through UTC
AsKyiv(d) == IF d.tz = KYIV_TZ THEN d ELSE FromUtcKyiv(Instant(d))

\* datetime.__lt__ between aware datetimes: with the same tzinfo the wall
\* clocks are compared and fold is ignored, otherwise the instants
DtLessFoldBlind(a, b) == a.wall < b.wall

DtLess(a, b) == IF a.tz = b.tz THEN DtLessFoldBlind(a, b) ELSE Instant(a) < Instant(b)

\* the date/time values of the feed: their shape and the minutes they name
DtValues ==
    [v \in {"20241027", "20241027T003000Z", "20241027T011000Z", "20241027T033000"} |->
        CASE v = "20241027"         -> [shape |-> "date",  min |-> 0]
          [] v = "20241027T003000Z" -> [shape |-> "utc",   min |-> 30]
          [] v = "20241027T011000Z" -> [shape |-> "utc",   min |-> 70]
          [] v = "20241027T033000"  -> [shape |-> "local", min |-> 210]]

\* the tzinfo _parse_dt attaches: ZoneInfo(tzid) if tzid else KYIV_TZ
TzFor(tzid) == IF tzid # None THEN tzid ELSE KYIV_TZ

ShapeOf(value) ==
    LET v == Strip(value)
    IN IF Len(v) = 1 /\ v[1] \in DOMAIN DtValues THEN DtValues[v[1]].shape ELSE "bad"

\* _parse_dt raises: strptime's ValueError on a value of none of the three
\* shapes, ZoneInfoNotFoundError on an unknown zone where the zone is used
ParseDtRaises(value, tzid) ==
    \/ ShapeOf(value) = "bad"
    \/ ShapeOf(value) \in {"date", "local"} /\ TzFor(tzid) \notin Zones

_parse_dt(value, tzid) ==
    LET v == Strip(value)
        m == DtValues[v[1]].min
    IN CASE ShapeOf(value) = "date"  -> [wall |-> m, fold |-> 0, tz |-> TzFor(tzid)]
         [] ShapeOf(value) = "utc"   -> AsKyiv([wall |-> m, fold |-> 0, tz |-> "UTC"])
         [] ShapeOf(value) = "local" -> AsKyiv([wall |-> m, fold |-> 0, tz |-> TzFor(tzid)])

-----------------------------------------------------------------------------
(* parse_ics_events                                                        *)

BeginLine == <<"BEGIN", ":", "VEVENT">>
EndLine   == <<"END", ":", "VEVENT">>

\* the lines other than the two markers that the feed is made of
FieldLines ==
    { <<"DTSTART", ":", "20241027T003000Z">>,
      <<"DTSTART", ":", "20241027T011000Z">>,
      <<"DTSTART", ";", "TZID=UTC", ":", "20241027T033000">>,
      <<"DTSTART", ":", "soon">>,
      <<"DTSTART", ":", " ">>,
      <<"DTEND", ";", "VALUE=DATE", ":", "20241027">>,
      <<"DTEND", ";", "TZID=Nowhere", ":", "20241027T033000">>,
      <<"summary", ":", "a", " ">>,
      <<"UID", ":", "7">>,
      <<"X">> }

\* str.upper on the keys of the feed
Upper(tok) == IF tok = "summary" THEN "SUMMARY" ELSE tok

KnownKeys == {"DTSTART", "DTEND", "SUMMARY", "DESCRIPTION", "LOCATION"}

\* the zone a parameter names: re.search(r"TZID=([^;]+)", params)
TzidParams == [p \in {"TZID=UTC", "TZID=Europe/Kyiv", "TZID=Nowhere"} |->
                 CASE p = "TZID=UTC" -> "UTC"
                   [] p = "TZID=Europe/Kyiv" -> "Europe/Kyiv"
                   [] p = "TZID=Nowhere" -> "Nowhere"]

RECURSIVE TzidOf(_)
TzidOf(params) ==
    IF params = <<>> THEN None
    ELSE IF Head(params) \in DOMAIN TzidParams THEN TzidParams[Head(params)]
    ELSE TzidOf(Tail(params))

\* left, value = line.split(":", 1)
LeftOf(line)  == SubSeq(line, 1, Find(line, ":") - 1)
ValueOf(line) == Strip(SubSeq(line, Find(line, ":") + 1, Len(line)))

\* key, params = left.split(";", 1) when left holds a ";"
KeyPart(left) ==
    IF Find(left, ";") = 0 THEN left ELSE SubSeq(left, 1, Find(left, ";") - 1)
ParamPart(left) ==
    IF Find(left, ";") = 0 THEN <<>> ELSE SubSeq(left, Find(left, ";") + 1, Len(left))

\* key.strip().upper(), as one token when it is one
KeyOf(line) ==
    LET k == Strip(KeyPart(LeftOf(line)))
    IN IF Len(k) = 1 THEN Upper(k[1]) ELSE "?"

EmptyDict == [k \in {} |-> <<None, <<>>>>]

\* cur.get(key, (None, ""))
Get(d, key) == IF key \in DOMAIN d THEN d[key] ELSE <<None, <<>>>>

\* cur[key] = (tzid, value)
Put(d, key, tzid, value) ==
    [k \in DOMAIN d \cup {key} |-> IF k = key THEN <<tzid, value>> ELSE d[k]]

\* the Event flush() constructs from an accumulator
EventOf(d) ==
    [start       |-> _parse_dt(Get(d, "DTSTART")[2], Get(d, "DTSTART")[1]),
     end         |-> _parse_dt(Get(d, "DTEND")[2], Get(d, "DTEND")[1]),
     summary     |-> Strip(Get(d, "SUMMARY")[2]),
     description |-> Strip(Get(d, "DESCRIPTION")[2]),
     location    |-> Strip(Get(d, "LOCATION")[2])]

\* flush(): "drop" (nothing to build), "raise" (_parse_dt raised) or "append"
FlushOutcome(d) ==
    IF DOMAIN d = {} THEN "drop"
    ELSE IF Get(d, "DTSTART")[2] = <<>> \/ Get(d, "DTEND")[2] = <<>> THEN "drop"
    ELSE IF \/ ParseDtRaises(Get(d, "DTSTART")[2], Get(d, "DTSTART")[1])
            \/ ParseDtRaises(Get(d, "DTEND")[2], Get(d, "DTEND")[1]) THEN "raise"
    ELSE "append"

\* the accumulator flush() leaves behind when it returns
CurAfterFlushKept(d) == d

CurAfterFlush(d) == EmptyDict

\* the accumulator after BEGIN:VEVENT
CurAfterBeginKept(d) == d

CurAfterBegin(d) == EmptyDict

\* list.sort(key=lambda e: e.start): a stable insertion by datetime.__lt__
RECURSIVE InsertSorted(_, _)
InsertSorted(s, e) ==
    IF s # <<>> /\ DtLess(e.start, s[Len(s)].start)
    THEN Append(InsertSorted(SubSeq(s, 1, Len(s) - 1), e), s[Len(s)])
    ELSE Append(s, e)

RECURSIVE SortByStart(_)
SortByStart(s) ==
    IF s = <<>> THEN <<>>
    ELSE InsertSorted(SortByStart(SubSeq(s, 1, Len(s) - 1)), s[Len(s)])

-----------------------------------------------------------------------------
(* Bounds of the model                                                     *)

\* BEGIN/END markers one input holds
MaxMarks == 4
\* lines between two markers
MaxBlock == 2

-----------------------------------------------------------------------------
(* The values each group of variables has while another function is the    *)
(* one being exercised                                                     *)

ParseIdle ==
    /\ in_event = FALSE /\ cur = EmptyDict /\ events = <<>> /\ p_pc = "idle"
    /\ marks = <<>> /\ blk = <<>>
UnfoldIdle == logical = <<>> /\ ics_text = <<>> /\ out = <<>> /\ u_pc = "idle"
PlaceIdle == location = <<>> /\ description = <<>> /\ place = <<>> /\ c_pc = "idle"
TeachIdle == t_description = <<>> /\ teacher = <<>> /\ t_pc = "idle"
GateIdle ==
    /\ g_state = <<>> /\ g_key = None /\ g_stamp = <<>> /\ g_answer = FALSE
    /\ g_pc = "idle"
MainIdle ==
    /\ file = <<>> /\ clock = 0 /\ env = {} /\ today = 0 /\ pc = "off" /\ mode = None
    /\ state = <<>> /\ stamp = <<>> /\ log = <<>>

-----------------------------------------------------------------------------
(* parse_ics_events, one line of the input per step                        *)

notParse == <<unfoldVars, placeVars, teachVars, gateVars, mainVars>>

ParseInit ==
    /\ in_event = FALSE /\ cur = EmptyDict /\ events = <<>> /\ p_pc = "scan"
    /\ marks = <<>> /\ blk = <<>>

\* if line == "BEGIN:VEVENT"
ReadBegin ==
    /\ p_pc = "scan" /\ Len(marks) < MaxMarks
    /\ in_event' = TRUE
    /\ cur' = CurAfterBegin(cur)
    /\ marks' = Append(marks, "B") /\ blk' = <<>>
    /\ UNCHANGED <<events, p_pc>>
    /\ UNCHANGED notParse

\* if line == "END:VEVENT": flush() when inside a block
ReadEnd ==
    /\ p_pc = "scan" /\ Len(marks) < MaxMarks
    /\ LET o == IF in_event THEN FlushOutcome(cur) ELSE "none"
       IN /\ events' = IF o = "append" THEN Append(events, EventOf(cur)) ELSE events
          /\ cur' = IF o \in {"drop", "append"} THEN CurAfterFlush(cur) ELSE cur
          /\ p_pc' = IF o = "raise" THEN "raised" ELSE "scan"
          /\ in_event' = IF o = "raise" THEN in_event ELSE FALSE
    /\ marks' = Append(marks, "E") /\ blk' = <<>>
    /\ UNCHANGED notParse

\* a line outside a block, or one without a colon: continue
SkipLine ==
    /\ p_pc = "scan" /\ Len(blk) < MaxBlock
    /\ \E line \in FieldLines :
         /\ ~in_event \/ Find(line, ":") = 0
         /\ blk' = Append(blk, line)
    /\ UNCHANGED <<in_event, cur, events, p_pc, marks>>
    /\ UNCHANGED notParse

\* key(;params)?:value inside a block
FieldLine ==
    /\ p_pc = "scan" /\ Len(blk) < MaxBlock
    /\ \E line \in FieldLines :
         /\ in_event /\ Find(line, ":") # 0
         /\ cur' = IF KeyOf(line) \in KnownKeys
                   THEN Put(cur, KeyOf(line), TzidOf(ParamPart(LeftOf(line))), ValueOf(line))
                   ELSE cur
         /\ blk' = Append(blk, line)
    /\ UNCHANGED <<in_event, events, p_pc, marks>>
    /\ UNCHANGED notParse

\* the input is consumed: events.sort(key=lambda e: e.start); return events
FinishParse ==
    /\ p_pc = "scan"
    /\ events' = SortByStart(events)
    /\ p_pc' = "done"
    /\ UNCHANGED <<in_event, cur, marks, blk>>
    /\ UNCHANGED notParse

InitParse == ParseInit /\ UnfoldIdle /\ PlaceIdle /\ TeachIdle /\ GateIdle /\ MainIdle

NextParse == ReadBegin \/ ReadEnd \/ SkipLine \/ FieldLine \/ FinishParse

SpecParse == InitParse /\ [][NextParse]_vars

-----------------------------------------------------------------------------
(* Properties of parse_ics_events                                          *)

\* the last marker consumed was BEGIN:VEVENT
InsideBlock(m) == m # <<>> /\ m[Len(m)] = "B"

\* the step consumes an END:VEVENT line
EndStep == marks' = Append(marks, "E")

\* the step consumes a BEGIN:VEVENT line
BeginStep == marks' = Append(marks, "B")

\* the number of END:VEVENT lines whose nearest marker before them is a BEGIN:VEVENT
RECURSIVE ClosedCount(_)
ClosedCount(m) ==
    IF Len(m) < 2 THEN 0
    ELSE ClosedCount(SubSeq(m, 1, Len(m) - 1))
         + (IF m[Len(m)] = "E" /\ m[Len(m) - 1] = "B" THEN 1 ELSE 0)

\* the fields a run of lines supplies, the last value of a key winning
RECURSIVE Supplied(_)
Supplied(ls) ==
    IF ls = <<>> THEN EmptyDict
    ELSE LET d == Supplied(SubSeq(ls, 1, Len(ls) - 1))
             line == ls[Len(ls)]
         IN IF Find(line, ":") # 0 /\ KeyOf(line) \in KnownKeys
            THEN Put(d, KeyOf(line), TzidOf(ParamPart(LeftOf(line))), ValueOf(line))
            ELSE d

SuppliesBoth(ls) ==
    Get(Supplied(ls), "DTSTART")[2] # <<>> /\ Get(Supplied(ls), "DTEND")[2] # <<>>

Accepted(ls) ==
    /\ ~ParseDtRaises(Get(Supplied(ls), "DTSTART")[2], Get(Supplied(ls), "DTSTART")[1])
    /\ ~ParseDtRaises(Get(Supplied(ls), "DTEND")[2], Get(Supplied(ls), "DTEND")[1])

OneAppended == Len(events') = Len(events) + 1 /\ SubSeq(events', 1, Len(events)) = events

\* C1 as stated: at every END:VEVENT reached inside a block, exactly one Event is
\* appended if the block supplied a non-empty DTSTART and a non-empty DTEND, and
\* otherwise none is and no error is raised; the accumulator is empty afterwards.
C1_AsStated ==
    [][EndStep /\ InsideBlock(marks) =>
         /\ p_pc' # "raised"
         /\ cur' = EmptyDict
         /\ IF SuppliesBoth(blk) THEN OneAppended ELSE events' = events]_vars

\* C1 amended: at every END:VEVENT reached inside a block, exactly one Event is
\* appended if the block supplied a non-empty DTSTART and DTEND that _parse_dt
\* accepts; if both are non-empty and one is not accepted the exception leaves
\* parse_ics_events and nothing is appended; otherwise nothing is appended and no
\* error is raised; whenever flush returns, the accumulator is empty afterwards.
C1_FlushOnEnd ==
    [][EndStep /\ InsideBlock(marks) =>
         IF ~SuppliesBoth(blk)
         THEN events' = events /\ p_pc' = "scan" /\ cur' = EmptyDict
         ELSE IF ~Accepted(blk)
         THEN events' = events /\ p_pc' = "raised"
         ELSE OneAppended /\ p_pc' = "scan" /\ cur' = EmptyDict]_vars

\* an END:VEVENT has just closed a block that supplied both fields, and another
\* has closed one that did not
C1_Witness ==
    /\ Len(marks) = 4 /\ marks[4] = "E" /\ marks[3] = "B" /\ marks[2] = "E"
    /\ Len(events) = 1 /\ cur = EmptyDict /\ p_pc = "scan"

\* the reference order of C2: ascending by instant, ties in the order given
RECURSIVE InsertByInstant(_, _)
InsertByInstant(s, e) ==
    IF s # <<>> /\ Instant(e.start) < Instant(s[Len(s)].start)
    THEN Append(InsertByInstant(SubSeq(s, 1, Len(s) - 1), e), s[Len(s)])
    ELSE Append(s, e)

RECURSIVE SortByInstant(_)
SortByInstant(s) ==
    IF s = <<>> THEN <<>>
    ELSE InsertByInstant(SortByInstant(SubSeq(s, 1, Len(s) - 1)), s[Len(s)])

\* C2: the list parse_ics_events returns is ordered by start instant ascending,
\* events with equal start instants in the order their blocks were closed.
C2_SortedByInstant ==
    [][p_pc = "scan" /\ p_pc' = "done" => events' = SortByInstant(events)]_vars

\* C10: an END:VEVENT emits at most the Event built from the field lines since the
\* nearest BEGIN:VEVENT before it, and nothing when the nearest marker before it is
\* not a BEGIN:VEVENT; no other line and not the end of the input emits an Event;
\* so there are never more events than END:VEVENT lines that follow a BEGIN:VEVENT.
C10_BlockScoped ==
    [][/\ IF EndStep /\ InsideBlock(marks) /\ SuppliesBoth(blk) /\ Accepted(blk)
          THEN events' = Append(events, EventOf(Supplied(blk)))
          ELSE IF p_pc = "scan" /\ p_pc' = "done"
          THEN Len(events') = Len(events)
          ELSE events' = events
       /\ Len(events') <= ClosedCount(marks')]_vars

\* a BEGIN:VEVENT arrived inside a block, its END:VEVENT emitted an Event, and a
\* second END:VEVENT arrived outside a block
C10_Witness ==
    /\ Len(marks) = 4 /\ marks[1] = "B" /\ marks[2] = "B" /\ marks[3] = "E"
    /\ marks[4] = "E" /\ Len(events) = 1 /\ p_pc = "scan"

-----------------------------------------------------------------------------
(* _unfold_ics_lines, on text one character per token                      *)

\* lines of the feed
MaxLogical == 2
\* characters of one logical line
MaxLineLen == 2

\* the characters a logical line is written in
Chars == {"a", " "}

\* the characters that mark a continuation line
FoldMarks == {" ", "\t"}

\* the two line endings of such feeds
LineEndings == {<<"\n">>, <<"\r", "\n">>}

\* str.splitlines(): the text is cut after "\n", "\r\n" and "\r"; what follows
\* the last line ending is a line only when it is not empty
RECURSIVE SplitFrom(_, _, _, _)
SplitFrom(t, i, line, acc) ==
    IF i > Len(t) THEN (IF line # <<>> THEN Append(acc, line) ELSE acc)
    ELSE IF t[i] = "\r" /\ i < Len(t) /\ t[i + 1] = "\n"
         THEN SplitFrom(t, i + 2, <<>>, Append(acc, line))
    ELSE IF t[i] \in {"\n", "\r"} THEN SplitFrom(t, i + 1, <<>>, Append(acc, line))
    ELSE SplitFrom(t, i + 1, Append(line, t[i]), acc)

SplitLines(t) == SplitFrom(t, 1, <<>>, <<>>)

ContinuationStripped(line) == LStrip(line)

\* what a continuation line adds to the logical line before it: line[1:]
Continuation(line) == Tail(line)

\* the loop of _unfold_ics_lines over the physical lines
RECURSIVE UnfoldFrom(_, _, _)
UnfoldFrom(raw, i, acc) ==
    IF i > Len(raw) THEN acc
    ELSE LET line == raw[i]
         IN IF line = <<>> THEN UnfoldFrom(raw, i + 1, Append(acc, line))
            ELSE IF Head(line) \in FoldMarks
            THEN IF acc # <<>>
                 THEN UnfoldFrom(raw, i + 1,
                          [acc EXCEPT ![Len(acc)] = acc[Len(acc)] \o Continuation(line)])
                 ELSE UnfoldFrom(raw, i + 1, Append(acc, LStrip(line)))
            ELSE UnfoldFrom(raw, i + 1, Append(acc, line))

_unfold_ics_lines(t) == UnfoldFrom(SplitLines(t), 1, <<>>)

\* the ways of writing one logical line as physical lines: it is cut into
\* non-empty pieces and each later piece starts a new line behind a fold mark
RECURSIVE FoldsOf(_)
FoldsOf(line) ==
    {<<line>>} \cup
    UNION { { <<SubSeq(line, 1, k)>> \o <<<<m>> \o Head(f)>> \o Tail(f) :
                f \in FoldsOf(SubSeq(line, k + 1, Len(line))), m \in FoldMarks }
            : k \in 1..(Len(line) - 1) }

\* the physical lines of every folding of a sequence of logical lines
RECURSIVE FoldingsOf(_)
FoldingsOf(ls) ==
    IF ls = <<>> THEN {<<>>}
    ELSE { f \o g : f \in FoldsOf(Head(ls)), g \in FoldingsOf(Tail(ls)) }

\* the text of physical lines, each ended by the line ending nl
RECURSIVE Joined(_, _)
Joined(phys, nl) ==
    IF phys = <<>> THEN <<>> ELSE Head(phys) \o nl \o Joined(Tail(phys), nl)

notUnfold == <<parseVars, placeVars, teachVars, gateVars, mainVars>>

UnfoldInit ==
    /\ logical \in SeqsUpTo(SeqsUpTo(Chars, MaxLineLen), MaxLogical)
    /\ ics_text = <<>> /\ out = <<>> /\ u_pc = "start"

\* the feed's writer folds the logical lines
Fold ==
    /\ u_pc = "start"
    /\ \E phys \in FoldingsOf(logical), nl \in LineEndings :
         ics_text' = Joined(phys, nl)
    /\ u_pc' = "folded"
    /\ UNCHANGED <<logical, out>>
    /\ UNCHANGED notUnfold

\* lines = _unfold_ics_lines(ics_text)
Unfold ==
    /\ u_pc = "folded"
    /\ out' = _unfold_ics_lines(ics_text)
    /\ u_pc' = "done"
    /\ UNCHANGED <<logical, ics_text>>
    /\ UNCHANGED notUnfold

InitUnfold == UnfoldInit /\ ParseIdle /\ PlaceIdle /\ TeachIdle /\ GateIdle /\ MainIdle

NextUnfold == Fold \/ Unfold

SpecUnfold == InitUnfold /\ [][NextUnfold]_vars

\* C3 as stated: unfolding any folding of any logical lines returns those lines,
\* also when some are empty or the first starts with whitespace.
C3_AsStated == u_pc = "done" => out = logical

NoLeadingFoldMark(ls) == \A i \in 1..Len(ls) : ls[i] = <<>> \/ ls[i][1] \notin FoldMarks

\* C3 amended: unfolding any folding of logical lines none of which begins with a
\* space or a tab returns exactly those lines in their order, empty lines included.
C3_RoundTrip == u_pc = "done" /\ NoLeadingFoldMark(logical) => out = logical

\* a text with an empty logical line and a folded one has been unfolded to the
\* logical lines it was written from
C3_Witness ==
    /\ u_pc = "done" /\ out = logical /\ Len(logical) = 2
    /\ logical[1] = <<>> /\ Len(SplitLines(ics_text)) > Len(logical)

-----------------------------------------------------------------------------
(* classify_place.  The Cyrillic room label (U+0430 U+0443 U+0434) is the   *)
(* token "aud".                                                            *)

\* tokens of a location or a description
MaxPlaceLen == 2

PlaceTokens == {"zoom", "ONLINE", "aud", ".", " ", "7", "x"}

Digits == {"7"}

\* str.lower
Lower(tok) ==
    CASE tok = "ONLINE" -> "online"
      [] tok = "DOC" -> "doc"
      [] OTHER -> tok

LowerAll(s) == [i \in 1..Len(s) |-> Lower(s[i])]

Contains(s, tok) == \E i \in 1..Len(s) : s[i] = tok

\* the number of leading tokens of s that are in S
RECURSIVE RunLen(_, _)
RunLen(s, S) == IF s # <<>> /\ Head(s) \in S THEN 1 + RunLen(Tail(s), S) ELSE 0

Drop(s, k) == SubSeq(s, k + 1, Len(s))

\* the length of the match of aud\.?\s*\d+ at the head of s, 0 when it does not
\* match there
RoomMatchLen(s) ==
    IF s = <<>> \/ Head(s) # "aud" THEN 0
    ELSE LET dot == IF Len(s) >= 2 /\ s[2] = "." THEN 1 ELSE 0
             ws == RunLen(Drop(s, 1 + dot), Whitespace)
             ds == RunLen(Drop(s, 1 + dot + ws), Digits)
         IN IF ds > 0 THEN 1 + dot + ws + ds ELSE 0

\* re.search(r"(aud\.?\s*\d+)", blob): group 1 of the leftmost match, <<>> when
\* there is none
RECURSIVE RoomSearch(_)
RoomSearch(s) ==
    IF s = <<>> THEN <<>>
    ELSE IF RoomMatchLen(s) > 0 THEN SubSeq(s, 1, RoomMatchLen(s))
    ELSE RoomSearch(Tail(s))

\* m.group(1).replace("aud", "aud.").strip()
RECURSIVE DotAfterLabel(_)
DotAfterLabel(s) ==
    IF s = <<>> THEN <<>>
    ELSE IF Head(s) = "aud" THEN <<"aud", ".">> \o DotAfterLabel(Tail(s))
    ELSE <<Head(s)>> \o DotAfterLabel(Tail(s))

RoomLabel(m) == Strip(DotAfterLabel(m))

Blob(loc, desc) == LowerAll(loc \o <<"\n">> \o desc)

OnlineHint(blob) == Contains(blob, "online") \/ Contains(blob, "zoom")

classify_place_room_first(loc, desc) ==
    LET blob == Blob(loc, desc)
    IN IF RoomSearch(blob) # <<>>
       THEN [label |-> "room", text |-> RoomLabel(RoomSearch(blob))]
       ELSE IF OnlineHint(blob) THEN [label |-> "online", text |-> <<>>]
       ELSE IF Strip(loc) # <<>> THEN [label |-> "location", text |-> Strip(loc)]
       ELSE [label |-> "none", text |-> <<>>]

classify_place(loc, desc) ==
    LET blob == Blob(loc, desc)
    IN IF OnlineHint(blob)
       THEN IF RoomSearch(blob) # <<>>
            THEN [label |-> "online_room", text |-> RoomLabel(RoomSearch(blob))]
            ELSE [label |-> "online", text |-> <<>>]
       ELSE IF RoomSearch(blob) # <<>>
       THEN [label |-> "room", text |-> RoomLabel(RoomSearch(blob))]
       ELSE IF Strip(loc) # <<>> THEN [label |-> "location", text |-> Strip(loc)]
       ELSE [label |-> "none", text |-> <<>>]

notPlace == <<parseVars, unfoldVars, teachVars, gateVars, mainVars>>

PlaceInit ==
    /\ location \in SeqsUpTo(PlaceTokens, MaxPlaceLen)
    /\ description \in SeqsUpTo(PlaceTokens, MaxPlaceLen)
    /\ place = <<>> /\ c_pc = "start"

\* place = classify_place(ev.location, ev.description)
Classify ==
    /\ c_pc = "start"
    /\ place' = classify_place(location, description)
    /\ c_pc' = "done"
    /\ UNCHANGED <<location, description>>
    /\ UNCHANGED notPlace

InitPlace == PlaceInit /\ ParseIdle /\ UnfoldIdle /\ TeachIdle /\ GateIdle /\ MainIdle

NextPlace == Classify

SpecPlace == InitPlace /\ [][NextPlace]_vars

Priority(verbatim) ==
    LET blob == Blob(location, description)
        on == OnlineHint(blob)
        room == RoomSearch(blob) # <<>>
    IN /\ on /\ room => place.label = "online_room"
       /\ on /\ ~room => place.label = "online"
       /\ ~on /\ room => place.label = "room"
       /\ ~on /\ ~room /\ Strip(location) = <<>> => place.label = "none"
       /\ ~on /\ ~room /\ Strip(location) # <<>> =>
              /\ place.label = "location"
              /\ place.text = IF verbatim THEN location ELSE Strip(location)

\* C4 as stated: online hint and room pattern give the combined label, online
\* hint alone the online label, room pattern alone the room label, otherwise the
\* verbatim location, or the placeholder when the location is blank.
C4_AsStated == c_pc = "done" => Priority(TRUE)

\* C4 amended: the same priority, the fourth case giving the location with its
\* leading and trailing whitespace removed, or the placeholder when it is blank.
C4_Priority == c_pc = "done" => Priority(FALSE)

\* a text with an online hint and a room pattern has been classified
C4_Witness ==
    /\ c_pc = "done" /\ place.label = "online_room"
    /\ place.text = <<"aud", ".", "7">>

-----------------------------------------------------------------------------
(* extract_teacher.  The Cyrillic titles are written in Latin letters: a    *)
(* full title is its abbreviation followed by the rest of the word, so      *)
(* "doc" "ent" is the full word of the abbreviation "doc".  "DOC" is "doc"  *)
(* in capitals, "ZW" is U+200B, "\\n" is a backslash followed by the letter *)
(* n, and "N" is a name.                                                   *)

\* tokens of a description
MaxDescLen == 4

TeacherTokens == {"doc", "DOC", "ent", ".", ":", " ", "N", "\\n", "\n", "ZW"}

\* the patterns of extract_teacher in their order: ^(?:abbr\.?|full)\s*[:\-]?\s*(.+)$
patterns ==
    << [abbr |-> "doc",   rest |-> "ent"],
       [abbr |-> "vikl",  rest |-> "adach"],
       [abbr |-> "prof",  rest |-> "esor"],
       [abbr |-> "asist", rest |-> "ent"],
       [abbr |-> "doc",   rest |-> "ent"],
       [abbr |-> "vikl",  rest |-> "adach"],
       [abbr |-> "prof",  rest |-> "esor"] >>

NoMatch == <<"NoMatch">>

\* regular-expression whitespace within one line
ReSpace == {" ", "\t"}

Separators == {":", "-"}

\* (.+)$ : whatever is left, when something is
ReGroup(s) == IF s # <<>> THEN s ELSE NoMatch

\* \s*(.+)$ : the longest run of whitespace that leaves something to the group
RECURSIVE ReSpacesGroup(_, _)
ReSpacesGroup(s, k) ==
    IF ReGroup(Drop(s, k)) # NoMatch THEN ReGroup(Drop(s, k))
    ELSE IF k = 0 THEN NoMatch
    ELSE ReSpacesGroup(s, k - 1)

\* [:\-]?\s*(.+)$ : the separator is taken when the rest then matches
ReSepTail(s) ==
    IF s # <<>> /\ Head(s) \in Separators
          /\ ReSpacesGroup(Tail(s), RunLen(Tail(s), ReSpace)) # NoMatch
    THEN ReSpacesGroup(Tail(s), RunLen(Tail(s), ReSpace))
    ELSE ReSpacesGroup(s, RunLen(s, ReSpace))

\* \s*[:\-]?\s*(.+)$
RECURSIVE ReTail(_, _)
ReTail(s, k) ==
    IF ReSepTail(Drop(s, k)) # NoMatch THEN ReSepTail(Drop(s, k))
    ELSE IF k = 0 THEN NoMatch
    ELSE ReTail(s, k - 1)

\* the first alternative, abbr\.? : the dot is taken when the rest then matches
ReAbbr(pat, line) ==
    IF line = <<>> \/ Lower(Head(line)) # pat.abbr THEN NoMatch
    ELSE LET s == Tail(line)
         IN IF s # <<>> /\ Head(s) = "." /\ ReTail(Tail(s), RunLen(Tail(s), ReSpace)) # NoMatch
            THEN ReTail(Tail(s), RunLen(Tail(s), ReSpace))
            ELSE ReTail(s, RunLen(s, ReSpace))

\* the second alternative, the full word
ReFull(pat, line) ==
    IF Len(line) < 2 \/ Lower(line[1]) # pat.abbr \/ Lower(line[2]) # pat.rest THEN NoMatch
    ELSE ReTail(Drop(line, 2), RunLen(Drop(line, 2), ReSpace))

\* re.match(pat, line, flags=re.IGNORECASE): group 1; the alternatives are tried
\* in the order they are written
ReMatch(pat, line) ==
    IF ReAbbr(pat, line) # NoMatch THEN ReAbbr(pat, line) ELSE ReFull(pat, line)

\* for pat in patterns: the first pattern that matches the line
RECURSIVE FirstPattern(_, _)
FirstPattern(line, i) ==
    IF i > Len(patterns) THEN NoMatch
    ELSE IF ReMatch(patterns[i], line) # NoMatch THEN ReMatch(patterns[i], line)
    ELSE FirstPattern(line, i + 1)

\* for line in lines: the first line a pattern matches
RECURSIVE FirstLine(_)
FirstLine(lines) ==
    IF lines = <<>> THEN NoMatch
    ELSE IF FirstPattern(Head(lines), 1) # NoMatch THEN FirstPattern(Head(lines), 1)
    ELSE FirstLine(Tail(lines))

ReplaceNothing(d) == d

\* description.replace("\\n", "\n")
ReplaceEscapedNewlines(d) == [i \in 1..Len(d) |-> IF d[i] = "\\n" THEN "\n" ELSE d[i]]

\* [l.strip() for l in ....splitlines() if l.strip()]
RECURSIVE StrippedLines(_)
StrippedLines(raw) ==
    IF raw = <<>> THEN <<>>
    ELSE IF Strip(Head(raw)) # <<>> THEN <<Strip(Head(raw))>> \o StrippedLines(Tail(raw))
    ELSE StrippedLines(Tail(raw))

Absent == [found |-> FALSE, name |-> <<>>]

extract_teacher(d) ==
    IF d = <<>> THEN Absent
    ELSE LET m == FirstLine(StrippedLines(SplitLines(ReplaceEscapedNewlines(d))))
         IN IF m = NoMatch THEN Absent ELSE [found |-> TRUE, name |-> Strip(m)]

notTeach == <<parseVars, unfoldVars, placeVars, gateVars, mainVars>>

TeachInit ==
    /\ t_description \in SeqsUpTo(TeacherTokens, MaxDescLen)
    /\ teacher = <<>> /\ t_pc = "start"

\* teacher = extract_teacher(ev.description)
ExtractTeacher ==
    /\ t_pc = "start"
    /\ teacher' = extract_teacher(t_description)
    /\ t_pc' = "done"
    /\ UNCHANGED t_description
    /\ UNCHANGED notTeach

InitTeach == TeachInit /\ ParseIdle /\ UnfoldIdle /\ PlaceIdle /\ GateIdle /\ MainIdle

NextTeach == ExtractTeacher

SpecTeach == InitTeach /\ [][NextTeach]_vars

\* the ways a title is written: abbreviated, abbreviated with a dot, in full,
\* in either letter case
TitleWords == {<<"doc">>, <<"doc", ".">>, <<"doc", "ent">>,
               <<"DOC">>, <<"DOC", ".">>, <<"DOC", "ent">>}

\* what may stand between the title and the name
AfterTitle == {<<" ">>, <<":">>, <<":", " ">>, <<" ", ":">>}

Range(f) == {f[i] : i \in DOMAIN f}

Unescaped(d) == [i \in 1..Len(d) |-> IF d[i] = "\\n" THEN "\n" ELSE d[i]]

\* C5: for a line made of a title, abbreviated or in full and in any letter case,
\* optionally a colon or dash, and then a name, the result is exactly that name
\* and holds no letters of the title word; it is absent when no line begins with
\* a title.
C5_NameAfterTitle ==
    t_pc = "done" =>
       /\ \A title \in TitleWords, mid \in AfterTitle :
             t_description = title \o mid \o <<"N">> =>
                teacher = [found |-> TRUE, name |-> <<"N">>]
       /\ (\A line \in Range(StrippedLines(SplitLines(Unescaped(t_description)))) :
               Lower(Head(line)) # "doc") => teacher = Absent

RECURSIVE WithoutZW(_)
WithoutZW(d) ==
    IF d = <<>> THEN <<>>
    ELSE IF Head(d) = "ZW" THEN WithoutZW(Tail(d))
    ELSE <<Head(d)>> \o WithoutZW(Tail(d))

\* C6 as stated: zero-width characters are normalized out of the description
\* before matching, so a description and the same description without its
\* zero-width characters give the same teacher.
C6_AsStated == t_pc = "done" => teacher = extract_teacher(WithoutZW(t_description))

\* C6 amended: only literal escaped newlines are normalized out of the description
\* before it is split into lines and matched: a description and the same
\* description with every escaped newline written as a line break give the same
\* teacher; zero-width characters stay, so a one-line description that starts with
\* one gives no teacher.
C6_EscapedNewlinesOnly ==
    t_pc = "done" =>
       /\ teacher = extract_teacher(Unescaped(t_description))
       /\ ( /\ t_description # <<>> /\ Head(t_description) = "ZW"
            /\ Len(SplitLines(Unescaped(t_description))) = 1 ) => teacher = Absent

\* the teacher was found on a line that follows a literal escaped newline
C6_Witness ==
    /\ t_pc = "done" /\ teacher = [found |-> TRUE, name |-> <<"N">>]
    /\ Len(t_description) = 4 /\ t_description[2] = "\\n" /\ t_description[1] = "ZW"

-----------------------------------------------------------------------------
(* The dedupe gate: should_post and mark_posted                            *)

\* calendar days the clock runs through, day 0 a Monday
MaxDay == 1

Days == 0..MaxDay

Keys == {"last_today", "last_tomorrow", "last_week"}

\* state.get(key) when nothing is stored under key
NoStamp == <<>>

\* f"today:{iso_date(target)}" and f"tomorrow:{iso_date(target)}"
StampToday(d) == <<"today", d>>
StampTomorrow(d) == <<"tomorrow", d + 1>>

Stamps == {StampToday(d) : d \in Days} \cup {StampTomorrow(d) : d \in Days}

EmptyState == [k \in {} |-> NoStamp]

\* the dicts load_state can return
States == UNION {[K -> Stamps] : K \in SUBSET Keys}

StateGet(st, key) == IF key \in DOMAIN st THEN st[key] ELSE NoStamp

should_post_stored_only(st, key, s) == key \in DOMAIN st /\ st[key] # s

\* last = state.get(key); return last != stamp
should_post(st, key, s) == StateGet(st, key) # s

\* state[key] = stamp
mark_posted(st, key, s) == [k \in DOMAIN st \cup {key} |-> IF k = key THEN s ELSE st[k]]

notGate == <<parseVars, unfoldVars, placeVars, teachVars, mainVars>>

GateInit ==
    /\ g_state \in States /\ g_key \in Keys /\ g_stamp \in Stamps
    /\ g_answer = FALSE /\ g_pc = "start"

\* should_post(state, key, stamp)
AskGate ==
    /\ g_pc = "start"
    /\ g_answer' = should_post(g_state, g_key, g_stamp)
    /\ g_pc' = "asked"
    /\ UNCHANGED <<g_state, g_key, g_stamp>>
    /\ UNCHANGED notGate

\* mark_posted(state, key, stamp)
MarkGate ==
    /\ g_pc = "asked"
    /\ g_state' = mark_posted(g_state, g_key, g_stamp)
    /\ g_pc' = "marked"
    /\ UNCHANGED <<g_key, g_stamp, g_answer>>
    /\ UNCHANGED notGate

\* should_post(state, key, stamp) right after mark_posted
AskAgain ==
    /\ g_pc = "marked"
    /\ g_answer' = should_post(g_state, g_key, g_stamp)
    /\ g_pc' = "asked_again"
    /\ UNCHANGED <<g_state, g_key, g_stamp>>
    /\ UNCHANGED notGate

InitGate == GateInit /\ ParseIdle /\ UnfoldIdle /\ PlaceIdle /\ TeachIdle /\ MainIdle

NextGate == AskGate \/ MarkGate \/ AskAgain

SpecGate == InitGate /\ [][NextGate]_vars

\* C7: should_post is true exactly when the stamp stored under the key differs
\* from S, nothing stored counting as different; right after mark_posted it is
\* false.
C7_DedupeGate ==
    /\ g_pc = "asked" =>
          (g_answer <=> (g_key \notin DOMAIN g_state \/ g_state[g_key] # g_stamp))
    /\ g_pc = "marked" => g_key \in DOMAIN g_state /\ g_state[g_key] = g_stamp
    /\ g_pc = "asked_again" => g_answer = FALSE

\* the gate was asked about an empty state, answered yes, the stamp was marked
\* and the gate, asked again, has answered no
C7_Witness == g_pc = "asked_again" /\ g_answer = FALSE /\ DOMAIN g_state = {g_key}

-----------------------------------------------------------------------------
(* main: one run at a time, a step per call that can fail                  *)

Required == {"TG_BOT_TOKEN", "TG_CHAT_ID", "GCAL_ICS_URL"}

\* the environments a run can be started in
Environments == {Required} \cup {Required \ {v} : v \in Required}

Modes == {"today", "tomorrow", "week"}

\* the state file: absent, unreadable as JSON, or the dict save_state wrote
NoFile == [kind |-> "missing", data |-> EmptyState]
BadFile == [kind |-> "corrupt", data |-> EmptyState]

\* load_state(): {} when the file is absent or json.load raises
load_state(f) == IF f.kind = "json" THEN f.data ELSE EmptyState

\* save_state(state)
save_state(st) == [kind |-> "json", data |-> st]

Running == [sent |-> "no", loaded |-> 0, fetched |-> 0, weather |-> 0, exit |-> "running"]

notMain == <<parseVars, unfoldVars, placeVars, teachVars, gateVars>>

MainInit ==
    /\ file \in {NoFile, BadFile}
    /\ clock = 0 /\ env = Required /\ today = 0 /\ pc = "idle" /\ mode = "today"
    /\ state = EmptyState /\ stamp = NoStamp
    /\ log = [before |-> file] @@ Running

\* the calendar day changes
Tick ==
    /\ clock < MaxDay
    /\ clock' = clock + 1
    /\ UNCHANGED <<file, env, today, pc, mode, state, stamp, log>>
    /\ UNCHANGED notMain

\* the scheduler starts the program in one of its modes
Invoke ==
    /\ pc = "idle"
    /\ \E m \in Modes, e \in Environments : mode' = m /\ env' = e
    /\ pc' = "config"
    /\ state' = EmptyState /\ stamp' = NoStamp /\ today' = 0
    /\ log' = [before |-> file] @@ Running
    /\ UNCHANGED <<file, clock>>
    /\ UNCHANGED notMain

\* the run ends with an exception
Abort ==
    /\ pc' = "idle"
    /\ log' = [log EXCEPT !.exit = "error"]
    /\ UNCHANGED <<file, clock, env, today, mode, state, stamp>>
    /\ UNCHANGED notMain

\* env_required raises RuntimeError
ConfigMissing == pc = "config" /\ env # Required /\ Abort

\* the three env_required calls return; state = load_state()
ConfigLoad ==
    /\ pc = "config" /\ env = Required
    /\ state' = load_state(file)
    /\ pc' = "fetch"
    /\ log' = [log EXCEPT !.loaded = 1]
    /\ UNCHANGED <<file, clock, env, today, mode, stamp>>
    /\ UNCHANGED notMain

\* fetch_ics raises (transport error, HTTP status) or parse_ics_events raises
FetchFails ==
    /\ pc = "fetch"
    /\ pc' = "idle"
    /\ log' = [log EXCEPT !.fetched = @ + 1, !.exit = "error"]
    /\ UNCHANGED <<file, clock, env, today, mode, state, stamp>>
    /\ UNCHANGED notMain

\* ics = fetch_ics(ics_url); all_events = parse_ics_events(ics); today = now_kyiv().date()
FetchParse ==
    /\ pc = "fetch"
    /\ today' = clock
    /\ pc' = "gate"
    /\ log' = [log EXCEPT !.fetched = @ + 1]
    /\ UNCHANGED <<file, clock, env, mode, state, stamp>>
    /\ UNCHANGED notMain

GateAlwaysPosts(key, s) ==
    /\ stamp' = s
    /\ pc' = "compose" /\ log' = log
    /\ UNCHANGED <<file, clock, env, today, mode, state>>
    /\ UNCHANGED notMain

\* one arm of main: the stamp is computed and the gate consulted
Gate(key, s) ==
    /\ stamp' = s
    /\ IF should_post(state, key, s)
       THEN pc' = "compose" /\ log' = log
       ELSE pc' = "idle" /\ log' = [log EXCEPT !.exit = "skipped"]
    /\ UNCHANGED <<file, clock, env, today, mode, state>>
    /\ UNCHANGED notMain

\* if args.mode == "today"
GateToday == pc = "gate" /\ mode = "today" /\ Gate("last_today", StampToday(today))

\* elif args.mode == "tomorrow"
GateTomorrow == pc = "gate" /\ mode = "tomorrow" /\ Gate("last_tomorrow", StampTomorrow(today))

\* The elif for "week" at line 643 is indented into the body of the "tomorrow"
\* arm, so it is no arm of the if at line 601 (the interpreter rejects an elif
\* in that place with SyntaxError): a run in week mode matches neither arm and
\* main returns.
NoArm ==
    /\ pc = "gate" /\ mode = "week"
    /\ pc' = "idle"
    /\ log' = [log EXCEPT !.exit = "returned"]
    /\ UNCHANGED <<file, clock, env, today, mode, state, stamp>>
    /\ UNCHANGED notMain

\* events_in_range, format_weather_block (one weather lookup, whose failure is
\* swallowed) and format_day build the message
Compose ==
    /\ pc = "compose"
    /\ pc' = "send"
    /\ log' = [log EXCEPT !.weather = 1]
    /\ UNCHANGED <<file, clock, env, today, mode, state, stamp>>
    /\ UNCHANGED notMain

\* tg_send_message returns
SendOk ==
    /\ pc = "send"
    /\ pc' = "persist"
    /\ log' = [log EXCEPT !.sent = "ok"]
    /\ UNCHANGED <<file, clock, env, today, mode, state, stamp>>
    /\ UNCHANGED notMain

SendFailsButPersists ==
    /\ pc = "send"
    /\ pc' = "persist"
    /\ log' = [log EXCEPT !.sent = "failed"]
    /\ UNCHANGED <<file, clock, env, today, mode, state, stamp>>
    /\ UNCHANGED notMain

\* tg_send_message raises: requests.post or raise_for_status raises, or the
\* reply's "ok" is false
SendFails ==
    /\ pc = "send"
    /\ pc' = "idle"
    /\ log' = [log EXCEPT !.sent = "failed", !.exit = "error"]
    /\ UNCHANGED <<file, clock, env, today, mode, state, stamp>>
    /\ UNCHANGED notMain

\* the key each arm passes to should_post and mark_posted
ModeKey(m) ==
    CASE m = "today" -> "last_today"
      [] m = "tomorrow" -> "last_tomorrow"
      [] m = "week" -> "last_week"

\* mark_posted(state, key, stamp); save_state(state)
Persist ==
    /\ pc = "persist"
    /\ state' = mark_posted(state, ModeKey(mode), stamp)
    /\ file' = save_state(state')
    /\ pc' = "idle"
    /\ log' = [log EXCEPT !.exit = "posted"]
    /\ UNCHANGED <<clock, env, today, mode, stamp>>
    /\ UNCHANGED notMain

Init == MainInit /\ ParseIdle /\ UnfoldIdle /\ PlaceIdle /\ TeachIdle /\ GateIdle

Next ==
    \/ Tick \/ Invoke \/ ConfigMissing \/ ConfigLoad \/ FetchFails \/ FetchParse
    \/ GateToday \/ GateTomorrow \/ NoArm \/ Compose \/ SendOk \/ SendFails \/ Persist

Spec == Init /\ [][Next]_vars

\* the stamp the state file holds under a key
Stored(f, key) == StateGet(load_state(f), key)

\* C8: the stamp persisted under a key changes only in a run of that key's mode
\* whose delivery call succeeded; a run that aborts (configuration missing, fetch
\* failed, delivery failed) leaves the persisted state as it was before the run.
C8_StampOnlyOnSuccess ==
    [][/\ \A k \in Keys :
            Stored(file', k) # Stored(file, k) => k = ModeKey(mode) /\ log.sent = "ok"
       /\ file' # file => log.sent = "ok"
       /\ log'.exit = "error" => file' = log'.before]_vars

\* a run whose delivery call failed has aborted, the stamp of an earlier
\* successful run still in the state file
C8_Witness ==
    /\ pc = "idle" /\ log.exit = "error" /\ log.sent = "failed"
    /\ file = log.before /\ Stored(file, "last_today") = StampToday(0)
    /\ mode = "today" /\ stamp = StampToday(1)

\* the stamp of the occasion a mode posts on a given day
Occasion(m, d) ==
    CASE m = "today" -> StampToday(d)
      [] m = "tomorrow" -> StampTomorrow(d)
      [] m = "week" -> <<"week", d - (d % 7) + 7, d - (d % 7) + 13>>

\* C9: in each mode (today, tomorrow, week) a run that completes leaves the
\* occasion's stamp stored, and a run that finds the occasion's stamp stored
\* makes no delivery call and leaves the persisted state unchanged.
C9_PostOnce ==
    [][/\ (pc # "idle" /\ pc' = "idle" /\ log'.exit # "error") =>
            Stored(file', ModeKey(mode)) = Occasion(mode, today)
       /\ (log'.sent # log.sent \/ file' # file) /\ log.exit = "running" =>
            Stored(log.before, ModeKey(mode)) # Occasion(mode, today)]_vars

=============================================================================
